---- MODULE Spec2Model ----
(***************************************************************************)
(* A model of the Madokami source adapter (src/src/lib.rs).                *)
(*                                                                         *)
(* Strings are sequences of byte values (0..255), the UTF-8 bytes of a str  *)
(* or String.  Option<T> is a sequence of length 0 (None) or 1 (Some).     *)
(* Result<T> is a record [ok |-> TRUE, val |-> v] or                       *)
(* [ok |-> FALSE, err |-> e].  Indices into strings are 0-based, as in the *)
(* source: At(s, i) is s[i] of the source.                                 *)
(*                                                                         *)
(* What a call does is an outcome: Returns(v) when it returns v, Panics    *)
(* when it panics (the call traps), and Overflows(v) when an integer       *)
(* operation overflows: the call then panics in a build with overflow      *)
(* checks and returns v, computed with wrapped results, in a build without.*)
(***************************************************************************)
EXTENDS Integers, Sequences, FiniteSets, TLC

VARIABLES op, arg, doc, ret, settings, requests

vars == <<op, arg, doc, ret, settings, requests>>

----------------------------------------------------------------------------
(* Characters and string literals *)

\* The printable ASCII characters, 0x20..0x7E, in code order (0x22, 0x5C and
\* 0x60 are written by name).
AsciiTable ==
  <<" ", "!", "dquote", "#", "$", "%", "&", "'", "(", ")", "*", "+", ",", "-", ".", "/",
    "0", "1", "2", "3", "4", "5", "6", "7", "8", "9", ":", ";", "<", "=", ">", "?",
    "@", "A", "B", "C", "D", "E", "F", "G", "H", "I", "J", "K", "L", "M", "N", "O",
    "P", "Q", "R", "S", "T", "U", "V", "W", "X", "Y", "Z", "[", "backslash", "]", "^", "_",
    "backtick", "a", "b", "c", "d", "e", "f", "g", "h", "i", "j", "k", "l", "m", "n", "o",
    "p", "q", "r", "s", "t", "u", "v", "w", "x", "y", "z", "{", "|", "}", "~">>

\* The byte value of each printable ASCII character.
OrdTable ==
  [c \in {AsciiTable[i] : i \in 1..Len(AsciiTable)} |->
     31 + (CHOOSE i \in 1..Len(AsciiTable) : AsciiTable[i] = c)]

Ord(c) == OrdTable[c]

\* The string whose characters are cs.
Lit(cs) == [i \in 1..Len(cs) |-> Ord(cs[i])]

None == <<>>
Some(x) == <<x>>
IsSome(o) == Len(o) = 1
Unwrap(o) == o[1]
UnwrapOr(o, d) == IF IsSome(o) THEN o[1] ELSE d

Returns(v) == [panic |-> "never", out |-> v]
Panics == [panic |-> "always"]
Overflows(v) == [panic |-> "overflow_checks", out |-> v]

\* The outcomes of a call in the two kinds of build.
Builds(outcome) ==
  IF outcome.panic = "overflow_checks" THEN {Panics, Returns(outcome.out)} ELSE {outcome}

\* The outcome of a computation made of several: it panics when one of them
\* does, and depends on the build when one of them does.
Joined(outcomes, v) ==
  IF \E o \in outcomes : o.panic = "always" THEN Panics
  ELSE IF \E o \in outcomes : o.panic = "overflow_checks" THEN Overflows(v)
  ELSE Returns(v)

At(s, i) == s[i + 1]

\* str::is_char_boundary: the start, the end, and every byte that is no
\* UTF-8 continuation byte (0x80..0xBF).
IsCharBoundary(s, i) ==
  \/ i = 0
  \/ i = Len(s)
  \/ (0 < i /\ i < Len(s) /\ (At(s, i) < 128 \/ At(s, i) >= 192))

\* s[a..b] of the source: bytes a, ..., b-1; a panic when the range is out
\* of bounds or an end of it is inside a character.
Slice(s, a, b) ==
  IF a <= b /\ b <= Len(s) /\ IsCharBoundary(s, a) /\ IsCharBoundary(s, b)
    THEN Returns(SubSeq(s, a + 1, b))
    ELSE Panics
\* s[a..] of the source.
SliceFrom(s, a) ==
  IF a <= Len(s) /\ IsCharBoundary(s, a) THEN Returns(SubSeq(s, a + 1, Len(s))) ELSE Panics

StartsWith(s, p) == Len(s) >= Len(p) /\ SubSeq(s, 1, Len(p)) = p
EndsWith(s, p) == Len(s) >= Len(p) /\ SubSeq(s, Len(s) - Len(p) + 1, Len(s)) = p
Contains(s, p) == \E k \in 1..(Len(s) - Len(p) + 1) : SubSeq(s, k, k + Len(p) - 1) = p

\* The UTF-8 bytes of the character with code point cp (String::push).
utf8(cp) ==
  IF cp < 128 THEN <<cp>>
  ELSE IF cp < 2048 THEN <<192 + (cp \div 64), 128 + (cp % 64)>>
  ELSE IF cp < 65536
    THEN <<224 + (cp \div 4096), 128 + ((cp \div 64) % 64), 128 + (cp % 64)>>
  ELSE <<240 + (cp \div 262144), 128 + ((cp \div 4096) % 64),
         128 + ((cp \div 64) % 64), 128 + (cp % 64)>>

\* str::split(sep) for a one-byte separator: the pieces between separators,
\* empty pieces included.
RECURSIVE Split(_, _)
Split(s, sep) ==
  IF \A k \in 1..Len(s) : s[k] # sep
    THEN <<s>>
    ELSE LET k == CHOOSE j \in 1..Len(s) : s[j] = sep /\ \A h \in 1..(j - 1) : s[h] # sep
         IN  <<SubSeq(s, 1, k - 1)>> \o Split(SubSeq(s, k + 1, Len(s)), sep)

RECURSIVE Concat(_)
Concat(ss) == IF ss = <<>> THEN <<>> ELSE Head(ss) \o Concat(Tail(ss))

Reverse(xs) == [i \in 1..Len(xs) |-> xs[Len(xs) + 1 - i]]

\* Rust's integer division truncates toward zero.
TruncDiv(a, b) == IF a >= 0 THEN a \div b ELSE -((-a) \div b)

CH_PERCENT == Ord("%")
CH_PLUS == Ord("+")
CH_SPACE == Ord(" ")
CH_SLASH == Ord("/")
CH_BANG == Ord("!")
CH_MINUS == Ord("-")

IsDigit(b) == Ord("0") <= b /\ b <= Ord("9")
IsAsciiAlphanumeric(b) ==
  \/ IsDigit(b)
  \/ (Ord("a") <= b /\ b <= Ord("z"))
  \/ (Ord("A") <= b /\ b <= Ord("Z"))

----------------------------------------------------------------------------
(* percent_decode, hex, encode_component *)

hex(c) ==
  IF Ord("0") <= c /\ c <= Ord("9") THEN Some(c - Ord("0"))
  ELSE IF Ord("a") <= c /\ c <= Ord("f") THEN Some(10 + c - Ord("a"))
  ELSE IF Ord("A") <= c /\ c <= Ord("F") THEN Some(10 + c - Ord("A"))
  ELSE None

\* The loop of percent_decode from index i on: the characters it pushes.  A
\* byte is read as the character of that code point (`as char`) and pushed
\* as that character's UTF-8 bytes: two bytes for a value of 0x80 or more.
RECURSIVE percent_decode_from(_, _)
percent_decode_from(bytes, i) ==
  IF ~(i < Len(bytes)) THEN <<>>
  ELSE IF At(bytes, i) = CH_PERCENT /\ i + 2 < Len(bytes)
    THEN LET hi == hex(At(bytes, i + 1))
             lo == hex(At(bytes, i + 2))
         IN  IF IsSome(hi) /\ IsSome(lo)
               THEN utf8(Unwrap(hi) * 16 + Unwrap(lo)) \o percent_decode_from(bytes, i + 3)
               ELSE <<CH_PERCENT>> \o percent_decode_from(bytes, i + 1)
  ELSE IF At(bytes, i) = CH_PLUS
    THEN <<CH_SPACE>> \o percent_decode_from(bytes, i + 1)
  ELSE utf8(At(bytes, i)) \o percent_decode_from(bytes, i + 1)

\* A decoder whose guard is off by one: a triplet at the very end is not decoded.
RECURSIVE percent_decode_short_guard(_, _)
percent_decode_short_guard(bytes, i) ==
  IF ~(i < Len(bytes)) THEN <<>>
  ELSE IF At(bytes, i) = CH_PERCENT /\ i + 3 < Len(bytes)
    THEN LET hi == hex(At(bytes, i + 1))
             lo == hex(At(bytes, i + 2))
         IN  IF IsSome(hi) /\ IsSome(lo)
               THEN utf8(Unwrap(hi) * 16 + Unwrap(lo)) \o percent_decode_short_guard(bytes, i + 3)
               ELSE <<CH_PERCENT>> \o percent_decode_short_guard(bytes, i + 1)
  ELSE IF At(bytes, i) = CH_PLUS
    THEN <<CH_SPACE>> \o percent_decode_short_guard(bytes, i + 1)
  ELSE utf8(At(bytes, i)) \o percent_decode_short_guard(bytes, i + 1)

percent_decode_mutant(input) == percent_decode_short_guard(input, 0)

percent_decode(input) == percent_decode_from(input, 0)

\* One digit of "{:02X}".
UpperHexDigit(n) == IF n < 10 THEN Ord("0") + n ELSE Ord("A") + (n - 10)

\* What encode_component pushes for one byte.
encode_byte(b) ==
  IF IsAsciiAlphanumeric(b) \/ b \in {Ord("-"), Ord("_"), Ord("."), Ord("~")}
    THEN <<b>>
    ELSE <<CH_PERCENT, UpperHexDigit(b \div 16), UpperHexDigit(b % 16)>>

RECURSIVE encode_component(_)
encode_component(s) ==
  IF s = <<>> THEN <<>> ELSE encode_byte(Head(s)) \o encode_component(Tail(s))

----------------------------------------------------------------------------
(* derive_from_path *)

NonEmpty(s) == s # <<>>

\* The first element of the reversed segment list whose decoding does not
\* start with '!', decoded; the empty string when there is none.
RECURSIVE title_from(_, _)
title_from(segs, k) ==
  IF k = 0 THEN <<>>
  ELSE LET dec == percent_decode(segs[k])
       IN  IF ~StartsWith(dec, <<CH_BANG>>) THEN dec ELSE title_from(segs, k - 1)

\* A derivation that takes the description from the title's segment.
derive_from_path_mutant(path) ==
  LET segs == SelectSeq(Split(path, CH_SLASH), NonEmpty)
  IN  IF segs = <<>>
        THEN [title |-> <<>>, description |-> None]
        ELSE [title |-> title_from(segs, Len(segs)),
              description |-> Some(title_from(segs, Len(segs)))]

derive_from_path(path) ==
  LET segs == SelectSeq(Split(path, CH_SLASH), NonEmpty)
  IN  IF segs = <<>>
        THEN [title |-> <<>>, description |-> None]
        ELSE [title |-> title_from(segs, Len(segs)),
              description |-> Some(percent_decode(segs[Len(segs)]))]

normalize_chapter_href(raw) ==
  IF StartsWith(raw, <<CH_SLASH>>) THEN raw ELSE <<CH_SLASH>> \o raw

----------------------------------------------------------------------------
(* parse_chapter_date, simulate_relative, days_since_epoch *)

AGO == Lit(<<"a", "g", "o">>)
MIN == Lit(<<"m", "i", "n">>)
HOUR == Lit(<<"h", "o", "u", "r">>)
SEC == Lit(<<"s", "e", "c">>)

AllDigits(s) == \A k \in 1..Len(s) : IsDigit(s[k])

RECURSIVE DigitsValue(_)
DigitsValue(s) ==
  IF s = <<>> THEN 0
  ELSE 10 * DigitsValue(SubSeq(s, 1, Len(s) - 1)) + (s[Len(s)] - Ord("0"))

\* A digit string without its leading zeros (one digit is kept).
RECURSIVE StripZeros(_)
StripZeros(ds) ==
  IF Len(ds) > 1 /\ ds[1] = Ord("0") THEN StripZeros(Tail(ds)) ELSE ds

\* a <= b for two numbers written in digits without leading zeros.
DigitsLeq(a, b) ==
  \/ Len(a) < Len(b)
  \/ /\ Len(a) = Len(b)
     /\ \/ a = b
        \/ \E k \in 1..Len(a) : a[k] < b[k] /\ \A h \in 1..(k - 1) : a[h] = b[h]

\* i64::MAX, -i64::MIN, i32::MAX and -i32::MIN in digits.
I64_MAX_DIGITS ==
  Lit(<<"9", "2", "2", "3", "3", "7", "2", "0", "3", "6", "8", "5", "4", "7", "7", "5",
        "8", "0", "7">>)
I64_MIN_DIGITS ==
  Lit(<<"9", "2", "2", "3", "3", "7", "2", "0", "3", "6", "8", "5", "4", "7", "7", "5",
        "8", "0", "8">>)
I32_MAX_DIGITS == Lit(<<"2", "1", "4", "7", "4", "8", "3", "6", "4", "7">>)
I32_MIN_DIGITS == Lit(<<"2", "1", "4", "7", "4", "8", "3", "6", "4", "8">>)

\* str::parse of a signed integer type: an optional sign and one or more
\* decimal digits, nothing else, and a value of the type: a number past max
\* (or, with '-', past min) is an error.
parse_integer(s, max, min) ==
  IF s = <<>> THEN None
  ELSE LET signed == s[1] \in {CH_PLUS, CH_MINUS}
           digits == IF signed THEN Tail(s) ELSE s
       IN  IF digits = <<>> \/ ~AllDigits(digits) THEN None
           ELSE IF ~DigitsLeq(StripZeros(digits), IF s[1] = CH_MINUS THEN min ELSE max)
             THEN None
           ELSE IF s[1] = CH_MINUS THEN Some(-DigitsValue(digits))
           ELSE Some(DigitsValue(digits))

\* str::parse::<i64>()
parse_i64(s) == parse_integer(s, I64_MAX_DIGITS, I64_MIN_DIGITS)
\* str::parse::<i32>()
parse_i32(s) == parse_integer(s, I32_MAX_DIGITS, I32_MIN_DIGITS)

\* x is a value of i64.  The first disjunct, which the second implies, decides
\* the small values without a power of 63.
FitsI64(x) == (-(2^30) <= x /\ x <= 2^30) \/ (-(2^63) <= x /\ x < 2^63)

\* The i64 a wrapping operation leaves for the exact result x.
Wrap64(x) == IF FitsI64(x) THEN x ELSE ((x + 2^63) % 2^64) - 2^63

\* A conversion that takes an hour for a minute.
simulate_relative_mutant(unit, amount) ==
  LET product == IF StartsWith(unit, MIN) THEN amount * 60
                 ELSE IF StartsWith(unit, HOUR) THEN amount * 60
                 ELSE IF StartsWith(unit, SEC) THEN amount
                 ELSE 0
      secs == Wrap64(product)
  IN  IF FitsI64(product) /\ FitsI64(-secs) THEN Returns(-secs) ELSE Overflows(Wrap64(-secs))

\* amount * 60, amount * 3600 and -secs are i64 operations: each overflows
\* when its exact result is no i64.
simulate_relative(unit, amount) ==
  LET product == IF StartsWith(unit, MIN) THEN amount * 60
                 ELSE IF StartsWith(unit, HOUR) THEN amount * 3600
                 ELSE IF StartsWith(unit, SEC) THEN amount
                 ELSE 0
      secs == Wrap64(product)
  IN  IF FitsI64(product) /\ FitsI64(-secs) THEN Returns(-secs) ELSE Overflows(Wrap64(-secs))

\* A day count that leaves out the year shift for January and February.
days_since_epoch_mutant(y0, m, d) ==
  LET y == y0
      era == TruncDiv(IF y >= 0 THEN y ELSE y - 399, 400)
      yoe == y - era * 400
      doy == TruncDiv(153 * (m + (IF m > 2 THEN -3 ELSE 9)) + 2, 5) + d - 1
      doe == yoe * 365 + TruncDiv(yoe, 4) - TruncDiv(yoe, 100) + doy
  IN  era * 146097 + doe - 719468

days_since_epoch(y0, m, d) ==
  LET y == y0 - (IF m <= 2 THEN 1 ELSE 0)
      era == TruncDiv(IF y >= 0 THEN y ELSE y - 399, 400)
      yoe == y - era * 400
      doy == TruncDiv(153 * (m + (IF m > 2 THEN -3 ELSE 9)) + 2, 5) + d - 1
      doe == yoe * 365 + TruncDiv(yoe, 4) - TruncDiv(yoe, 100) + doy
  IN  era * 146097 + doe - 719468

\* The absolute branch of parse_chapter_date, for raw of 16 bytes or more.
\* Each of the five slices panics when an end of it is inside a character;
\* the fields are i32 (no slice holds a number past it), the sum is i64.
parse_absolute(raw) ==
  LET y == Slice(raw, 0, 4)
      mo == Slice(raw, 5, 7)
      d == Slice(raw, 8, 10)
      h == Slice(raw, 11, 13)
      mi == Slice(raw, 14, 16)
      year == UnwrapOr(parse_i32(y.out), 1970)
      month == UnwrapOr(parse_i32(mo.out), 1)
      day == UnwrapOr(parse_i32(d.out), 1)
      hour == UnwrapOr(parse_i32(h.out), 0)
      minute == UnwrapOr(parse_i32(mi.out), 0)
      days == days_since_epoch(year, month, day)
  IN  Joined({y, mo, d, h, mi}, days * 86400 + hour * 3600 + minute * 60)

parse_chapter_date(raw) ==
  IF raw = <<>> THEN Returns(0)
  ELSE IF EndsWith(raw, AGO)
    THEN LET parts == Split(raw, CH_SPACE)
         IN  IF Len(parts) >= 2 /\ IsSome(parse_i64(parts[1]))
               THEN simulate_relative(parts[2], Unwrap(parse_i64(parts[1])))
               ELSE Returns(0)
  ELSE IF Len(raw) >= 16 THEN parse_absolute(raw)
  ELSE Returns(0)

----------------------------------------------------------------------------
(* The adapter: requests, scraping, the entry points' results *)

BASE_URL ==
  Lit(<<"h", "t", "t", "p", "s", ":", "/", "/", "m", "a", "n", "g", "a", ".",
        "m", "a", "d", "o", "k", "a", "m", "i", ".", "a", "l">>)

Ok(v) == [ok |-> TRUE, val |-> v]
Err(e) == [ok |-> FALSE, err |-> e]

\* Iterator::filter_map over a sequence: f gives an Option for each element.
FilterMap(xs, f(_)) == Concat([i \in 1..Len(xs) |-> f(xs[i])])

Base64Alphabet ==
  Lit(<<"A", "B", "C", "D", "E", "F", "G", "H", "I", "J", "K", "L", "M", "N", "O", "P",
        "Q", "R", "S", "T", "U", "V", "W", "X", "Y", "Z", "a", "b", "c", "d", "e", "f",
        "g", "h", "i", "j", "k", "l", "m", "n", "o", "p", "q", "r", "s", "t", "u", "v",
        "w", "x", "y", "z", "0", "1", "2", "3", "4", "5", "6", "7", "8", "9", "+", "/">>)

\* general_purpose::STANDARD.encode: 3 bytes to 4 characters, '=' padding.
RECURSIVE base64_encode(_)
base64_encode(bytes) ==
  LET sextet(n) == Base64Alphabet[n + 1]
      pad == Ord("=")
  IN  IF bytes = <<>> THEN <<>>
      ELSE IF Len(bytes) = 1
        THEN <<sextet(bytes[1] \div 4), sextet((bytes[1] % 4) * 16), pad, pad>>
      ELSE IF Len(bytes) = 2
        THEN <<sextet(bytes[1] \div 4),
               sextet((bytes[1] % 4) * 16 + bytes[2] \div 16),
               sextet((bytes[2] % 16) * 4), pad>>
      ELSE <<sextet(bytes[1] \div 4),
             sextet((bytes[1] % 4) * 16 + bytes[2] \div 16),
             sextet((bytes[2] % 16) * 4 + bytes[3] \div 64),
             sextet(bytes[3] % 64)>> \o base64_encode(SubSeq(bytes, 4, Len(bytes)))

\* auth_get: an error when the host's Request::get refuses the URL (no
\* request is built and no header set); otherwise the request, with the URL
\* and, when a username or a password is set, the Authorization header.  cfg
\* holds the two settings as Options (defaults_get), an absent one read as
\* the empty string; accepted is what Request::get(url) made of the URL.
auth_get(url, cfg, accepted) ==
  LET username == UnwrapOr(cfg.username, <<>>)
      password == UnwrapOr(cfg.password, <<>>)
  IN  IF ~accepted
        THEN Err("request failed")
        ELSE Ok([url |-> url,
                 authorization |->
                   IF username # <<>> \/ password # <<>>
                     THEN Some(Lit(<<"B", "a", "s", "i", "c", " ">>)
                                 \o base64_encode(username \o <<Ord(":")>> \o password))
                     ELSE None])

\* The requests a call has built: the one auth_get returned, none when it
\* returned an error.
requests_built(req) == IF req.ok THEN <<req.val>> ELSE <<>>

\* aidoku's helpers::uri::encode_uri (a library function, not of this
\* repository): every byte is escaped but alphanumerics and the characters a
\* URI may hold, as by JavaScript's encodeURI.
UriSafe == Lit(<<"-", "_", ".", "!", "~", "*", "'", "(", ")", ";", "/", "?", ":", "@",
                 "&", "=", "+", "$", ",", "#">>)
encode_uri(s) ==
  Concat([i \in 1..Len(s) |->
            IF IsAsciiAlphanumeric(s[i]) \/ \E k \in 1..Len(UriSafe) : UriSafe[k] = s[i]
              THEN <<s[i]>>
              ELSE <<CH_PERCENT, UpperHexDigit(s[i] \div 16), UpperHexDigit(s[i] % 16)>>])

\* Manga { ..Default::default() }: the fields the adapter reads or writes.
DefaultManga ==
  [key |-> <<>>, title |-> <<>>, cover |-> None, authors |-> None, artists |-> None,
   description |-> None, status |-> "Unknown", tags |-> None, chapters |-> None]

\* The closure of the listings' filter_map: a table row to Some(Manga) or None.
\* A row is [link |-> Option of [href |-> Option of string]]: its first
\* column's first anchor and that anchor's href.
manga_from_row(row) ==
  IF ~IsSome(row.link) THEN None
  ELSE IF ~IsSome(Unwrap(row.link).href) THEN None
  ELSE LET key == Unwrap(Unwrap(row.link).href)
           derived == derive_from_path(key)
       IN  IF derived.title = <<>> THEN None
           ELSE Some([DefaultManga EXCEPT
                        !.key = key,
                        !.title = derived.title,
                        !.description =
                          IF IsSome(derived.description) /\ Unwrap(derived.description) # <<>>
                            THEN derived.description ELSE None])

\* rows is what html.select gave: None, or Some of the rows matched.
scrape_entries(rows) ==
  IF IsSome(rows) THEN FilterMap(Unwrap(rows), manga_from_row) ELSE <<>>

\* The result of get_search_manga_list once the page is fetched.
search_result(page) ==
  Returns(Ok([entries |-> scrape_entries(page.rows), has_next_page |-> FALSE]))

\* An f32: a finite value (-1)^neg * m * 2^e, with m odd, or m = 0 and e = 0
\* for a zero (which keeps its sign); an infinity; a NaN.
RECURSIVE Finite(_, _, _)
Finite(neg, m, e) ==
  IF m = 0 THEN [class |-> "finite", neg |-> neg, m |-> 0, e |-> 0]
  ELSE IF m % 2 = 0 THEN Finite(neg, m \div 2, e + 1)
  ELSE [class |-> "finite", neg |-> neg, m |-> m, e |-> e]
Infinite(neg) == [class |-> "infinite", neg |-> neg, m |-> 0, e |-> 0]
NaN(neg) == [class |-> "nan", neg |-> neg, m |-> 0, e |-> 0]

\* The exponent of the last place of the f32 nearest n/d: the least p >= 1
\* with n/d < 2^(24+p), or minus the least k with n/d >= 2^(23-k), 149 at most.
RECURSIVE ulp_up(_, _, _)
ulp_up(n, d, p) == IF n < 2^24 * d * 2^p THEN p ELSE ulp_up(n, d, p + 1)
RECURSIVE ulp_down(_, _, _)
ulp_down(n, d, k) == IF k < 149 /\ n * 2^k < 2^23 * d THEN ulp_down(n, d, k + 1) ELSE k

\* num/den rounded to the nearest integer, a tie to the even one.
round_half_even(num, den) ==
  IF 2 * (num % den) > den \/ (2 * (num % den) = den /\ (num \div den) % 2 = 1)
    THEN (num \div den) + 1
    ELSE num \div den

\* The f32 m * 2^p for a significand m of 2^24 at most: an infinity past the
\* greatest f32.
f32_at(neg, m, p) ==
  IF p > 104 \/ (p = 104 /\ m = 2^24) THEN Infinite(neg) ELSE Finite(neg, m, p)

\* n/d rounded to a multiple of 2^p.
round_at(neg, n, d, p) ==
  IF p >= 0
    THEN f32_at(neg, round_half_even(n, d * 2^p), p)
    ELSE f32_at(neg, round_half_even(n * 2^(-p), d), p)

\* The f32 nearest n/d (n >= 0, d > 0), ties to the even significand; past
\* the greatest f32 it is an infinity, below half the least it is a zero.
round_f32(neg, n, d) ==
  IF n = 0 THEN Finite(neg, 0, 0)
  ELSE round_at(neg, n, d, IF n >= 2^24 * d THEN ulp_up(n, d, 1) ELSE -ulp_down(n, d, 0))

ToLower(s) ==
  [i \in 1..Len(s) |-> IF Ord("A") <= s[i] /\ s[i] <= Ord("Z") THEN s[i] + 32 ELSE s[i]]

\* The number of digits of s from position k on.
RECURSIVE DigitRun(_, _)
DigitRun(s, k) == IF k <= Len(s) /\ IsDigit(s[k]) THEN 1 + DigitRun(s, k + 1) ELSE 0

\* The f32 nearest mant * 10^scale.
f32_of_decimal(neg, mant, scale) ==
  IF scale >= 0 THEN round_f32(neg, mant * 10^scale, 1) ELSE round_f32(neg, mant, 10^(-scale))

\* The digits of an exponent from position k to the end of body, one at least.
exponent_digits(body, k, neg) ==
  IF DigitRun(body, k) > 0 /\ k + DigitRun(body, k) = Len(body) + 1
    THEN Some((IF neg THEN -1 ELSE 1) * DigitsValue(SubSeq(body, k, Len(body))))
    ELSE None

\* What follows the digits of a number, from position k: nothing, or 'e' or
\* 'E', an optional sign and digits.  Some of the exponent, or None.
exponent_of(body, k) ==
  IF k = Len(body) + 1 THEN Some(0)
  ELSE IF body[k] \notin {Ord("e"), Ord("E")} THEN None
  ELSE IF k + 1 <= Len(body) /\ body[k + 1] \in {CH_PLUS, CH_MINUS}
    THEN exponent_digits(body, k + 2, body[k + 1] = CH_MINUS)
  ELSE exponent_digits(body, k + 1, FALSE)

\* The number of digits and its exponent, nf of the digits a fraction.
scaled(neg, digits, nf, exponent) ==
  IF IsSome(exponent)
    THEN Some(f32_of_decimal(neg, DigitsValue(digits), Unwrap(exponent) - nf))
    ELSE None

\* A number of ni integer digits and nf fraction digits, which start at fs.
number_from(neg, body, ni, fs, nf) ==
  IF ni + nf = 0 THEN None
  ELSE scaled(neg, SubSeq(body, 1, ni) \o SubSeq(body, fs, fs + nf - 1), nf,
              exponent_of(body, fs + nf))

\* Where the fraction digits start after ni integer digits: past a '.', if
\* there is one.
fraction_start(body, ni) ==
  IF ni + 1 <= Len(body) /\ body[ni + 1] = Ord(".") THEN ni + 2 ELSE ni + 1

number_at(neg, body, ni) ==
  number_from(neg, body, ni, fraction_start(body, ni), DigitRun(body, fraction_start(body, ni)))

\* What follows the sign: one of the words inf, infinity, nan in any case,
\* or a number.
parse_unsigned(neg, body) ==
  IF ToLower(body) \in {Lit(<<"i", "n", "f">>), Lit(<<"i", "n", "f", "i", "n", "i", "t", "y">>)}
    THEN Some(Infinite(neg))
  ELSE IF ToLower(body) = Lit(<<"n", "a", "n">>) THEN Some(NaN(neg))
  ELSE number_at(neg, body, DigitRun(body, 1))

\* str::parse::<f32>() (core::num::dec2flt): an optional sign, then either
\* digits with at most one '.' (one digit at least) and an optional exponent
\* ('e' or 'E', an optional sign, one digit at least), or one of the words
\* inf, infinity, nan in any case.  The number is rounded to the nearest f32.
parse_f32(tok) ==
  IF tok = <<>> THEN None
  ELSE IF tok[1] \in {CH_PLUS, CH_MINUS} THEN parse_unsigned(tok[1] = CH_MINUS, Tail(tok))
  ELSE parse_unsigned(FALSE, tok)

\* -1.0
MinusOne == Finite(TRUE, 1, 0)

\* title.split(' ').find_map(|s| s.parse::<f32>().ok()).unwrap_or(-1.0)
chapter_number(title) ==
  IF ~IsSome(title) THEN MinusOne
  ELSE LET found == FilterMap(Split(Unwrap(title), CH_SPACE), parse_f32)
       IN  IF found = <<>> THEN MinusOne ELSE found[1]

\* The Chapter of a row with an href, given what parse_chapter_date did.
chapter_dated(row, date) ==
  Joined({date},
         Some([key |-> normalize_chapter_href(Unwrap(Unwrap(row.link).href)),
               title |-> row.title,
               chapter_number |-> Some(chapter_number(row.title)),
               date_uploaded |-> Some(date.out)]))

\* The closure of get_manga_update's filter_map: an index-table row to
\* Some(Chapter) or None.  A row is [link, title, date]: its 6th column's
\* anchor (Option of [href |-> Option]), its 1st column's anchor text and its
\* 3rd column's text (Options).
chapter_from_row(row) ==
  IF ~IsSome(row.link) THEN Returns(None)
  ELSE IF ~IsSome(Unwrap(row.link).href) THEN Returns(None)
  ELSE chapter_dated(row, parse_chapter_date(UnwrapOr(row.date, <<>>)))

\* What the closure gives for each row.
chapters_made(rows) == [i \in 1..Len(rows) |-> chapter_from_row(rows[i])]

\* filter_map(..).collect(): the Some(Chapter)s among made, in order.
collect(made) ==
  Joined({made[i] : i \in 1..Len(made)}, Some(Concat([i \in 1..Len(made) |-> made[i].out])))

\* filter_map(..).rev().collect()
rev_collect(made) ==
  Joined({made[i] : i \in 1..Len(made)},
         Some(Reverse(Concat([i \in 1..Len(made) |-> made[i].out]))))

\* A scrape that returns the chapters in the page's order.
scrape_chapters_mutant(rows) ==
  IF IsSome(rows) THEN collect(chapters_made(Unwrap(rows))) ELSE Returns(None)

\* rows.filter_map(..).rev().collect(), under html.select(..).map
scrape_chapters(rows) ==
  IF IsSome(rows) THEN rev_collect(chapters_made(Unwrap(rows))) ELSE Returns(None)

texts(els) == IF IsSome(els) THEN Some(Concat(Unwrap(els))) ELSE None

status_of(text) ==
  IF text = Lit(<<"Y", "e", "s">>) THEN "Completed"
  ELSE IF text = Lit(<<"N", "o">>) THEN "Ongoing"
  ELSE "Unknown"

\* The needs_details block of get_manga_update.
with_details(manga, page) ==
  LET derived == derive_from_path(manga.key)
      rederived ==
        IF manga.title = <<>>
          THEN [manga EXCEPT
                  !.title = IF derived.title # <<>> THEN derived.title ELSE @,
                  !.description = IF manga.description = None THEN derived.description ELSE @]
          ELSE manga
      titled ==
        IF IsSome(page.title) /\ Unwrap(page.title) # <<>>
          THEN [rederived EXCEPT !.title = Unwrap(page.title)]
          ELSE rederived
  IN  [titled EXCEPT
         !.cover = page.cover,
         !.authors = texts(page.authors),
         !.artists = texts(page.artists),
         !.description = page.synopsis,
         !.status = status_of(UnwrapOr(page.status, <<>>)),
         !.tags = texts(page.tags)]

\* Ok(manga) with the chapters set, given what the scrape did.
updated(manga, needs_chapters, chapters) ==
  Joined({chapters},
         Ok(IF needs_chapters THEN [manga EXCEPT !.chapters = chapters.out] ELSE manga))

\* The result of get_manga_update once the page is fetched.
manga_update_result(manga, needs_details, needs_chapters, page) ==
  updated(IF needs_details THEN with_details(manga, page) ELSE manga,
          needs_chapters,
          IF needs_chapters THEN scrape_chapters(page.index_rows) ELSE Returns(None))

\* The byte at index i, or -1 past the end.
ByteAt(text, i) == IF i < Len(text) THEN At(text, i) ELSE -1

DQUOTE == Ord("dquote")
BACKSLASH == Ord("backslash")

\* The first index from i on that holds no JSON whitespace.
RECURSIVE skip_ws(_, _)
skip_ws(text, i) ==
  IF ByteAt(text, i) \in {32, 9, 10, 13} THEN skip_ws(text, i + 1) ELSE i

\* The value of the four hex digits at index i, or None.
hex4(text, i) ==
  IF i + 4 <= Len(text) /\ \A k \in 0..3 : IsSome(hex(At(text, i + k)))
    THEN Some(4096 * Unwrap(hex(At(text, i))) + 256 * Unwrap(hex(At(text, i + 1)))
                + 16 * Unwrap(hex(At(text, i + 2))) + Unwrap(hex(At(text, i + 3))))
    ELSE None

\* The character a two-byte escape stands for, or -1.
simple_escape(c) ==
  IF c = DQUOTE THEN 34
  ELSE IF c = BACKSLASH THEN 92
  ELSE IF c = Ord("/") THEN 47
  ELSE IF c = Ord("b") THEN 8
  ELSE IF c = Ord("f") THEN 12
  ELSE IF c = Ord("n") THEN 10
  ELSE IF c = Ord("r") THEN 13
  ELSE IF c = Ord("t") THEN 9
  ELSE -1

\* A JSON string from index i, past its opening quote; acc holds the bytes
\* read.  Some of the string and the index past its closing quote, or None:
\* for the end of the text, a control character, an escape that is none, a
\* \u escape without four hex digits, a surrogate without its pair.
RECURSIVE json_string(_, _, _)
json_string(text, i, acc) ==
  LET c == ByteAt(text, i)
      esc == ByteAt(text, i + 1)
      n1 == hex4(text, i + 2)
      n2 == hex4(text, i + 8)
  IN  IF c = -1 THEN None
      ELSE IF c = DQUOTE THEN Some([val |-> acc, next |-> i + 1])
      ELSE IF c < 32 THEN None
      ELSE IF c # BACKSLASH THEN json_string(text, i + 1, Append(acc, c))
      ELSE IF simple_escape(esc) # -1
        THEN json_string(text, i + 2, Append(acc, simple_escape(esc)))
      ELSE IF esc # Ord("u") \/ ~IsSome(n1) THEN None
      ELSE IF Unwrap(n1) \in 56320..57343 THEN None
      ELSE IF Unwrap(n1) \in 55296..56319
        THEN (IF /\ ByteAt(text, i + 6) = BACKSLASH
                 /\ ByteAt(text, i + 7) = Ord("u")
                 /\ IsSome(n2)
                 /\ Unwrap(n2) \in 56320..57343
                THEN json_string(text, i + 12,
                                 acc \o utf8(65536 + (Unwrap(n1) - 55296) * 1024
                                               + (Unwrap(n2) - 56320)))
                ELSE None)
      ELSE json_string(text, i + 6, acc \o utf8(Unwrap(n1)))

\* The elements of a JSON array of strings from index i, where an element
\* is expected; acc holds the elements read so far.
RECURSIVE json_elements(_, _, _)
json_elements(text, i, acc) ==
  IF ByteAt(text, i) # DQUOTE THEN None
  ELSE LET str == json_string(text, i + 1, <<>>)
           k == skip_ws(text, Unwrap(str).next)
           read == Append(acc, Unwrap(str).val)
       IN  IF ~IsSome(str) THEN None
           ELSE IF ByteAt(text, k) = Ord(",") THEN json_elements(text, skip_ws(text, k + 1), read)
           ELSE IF ByteAt(text, k) = Ord("]") /\ skip_ws(text, k + 1) = Len(text) THEN Some(read)
           ELSE None

\* serde_json::from_str::<Vec<String>>() (a library function, not of this
\* repository): Some of the strings of a JSON array of strings, None for any
\* other text.
json_string_array(text) ==
  LET open == skip_ws(text, 0)
      first == skip_ws(text, open + 1)
  IN  IF ByteAt(text, open) # Ord("[") THEN None
      ELSE IF ByteAt(text, first) = Ord("]")
        THEN (IF skip_ws(text, first + 1) = Len(text) THEN Some(<<>>) ELSE None)
      ELSE json_elements(text, first, <<>>)

IMAGE_PATH ==
  BASE_URL \o Lit(<<"/", "r", "e", "a", "d", "e", "r", "/", "i", "m", "a", "g", "e",
                    "?", "p", "a", "t", "h", "=">>)
AND_FILE == Lit(<<"&", "f", "i", "l", "e", "=">>)

page_url(data_path, file) ==
  IMAGE_PATH \o encode_component(data_path) \o AND_FILE \o encode_component(file)

\* A page list that fails the call when the file list is not JSON.
page_list_result_mutant(page) ==
  LET el == page.reader
      data_path == IF IsSome(el) THEN UnwrapOr(Unwrap(el).data_path, <<>>) ELSE <<>>
      files_json == IF IsSome(el) THEN UnwrapOr(Unwrap(el).data_files, <<>>) ELSE <<>>
  IN  IF data_path = <<>> \/ files_json = <<>> THEN Returns(Ok(<<>>))
      ELSE IF ~IsSome(json_string_array(files_json)) THEN Returns(Err("invalid file list"))
      ELSE LET files == Unwrap(json_string_array(files_json))
           IN  Returns(Ok([i \in 1..Len(files) |->
                             [content |-> [url |-> page_url(data_path, files[i])]]]))

\* The result of get_page_list once the page is fetched.  page.reader is the
\* first div#reader (an Option) with its two attributes (Options).
page_list_result(page) ==
  LET el == page.reader
      data_path == IF IsSome(el) THEN UnwrapOr(Unwrap(el).data_path, <<>>) ELSE <<>>
      files_json == IF IsSome(el) THEN UnwrapOr(Unwrap(el).data_files, <<>>) ELSE <<>>
  IN  IF data_path = <<>> \/ files_json = <<>> THEN Returns(Ok(<<>>))
      ELSE LET files == UnwrapOr(json_string_array(files_json), <<>>)
           IN  Returns(Ok([i \in 1..Len(files) |->
                             [content |-> [url |-> page_url(data_path, files[i])]]]))

RECENT == Lit(<<"r", "e", "c", "e", "n", "t">>)

\* A listing that takes the selector's answer for the presence of an anchor,
\* without looking for a first element.
recent_result_mutant(page) ==
  Returns(Ok([entries |-> scrape_entries(page.rows),
              has_next_page |-> IsSome(page.next)]))

\* The result of get_manga_list("recent") once the page is fetched.
\* page.next is what select("a.pagination-next") gave: None, or Some of the
\* number of anchors matched.
recent_result(page) ==
  Returns(Ok([entries |-> scrape_entries(page.rows),
              has_next_page |-> IF IsSome(page.next) THEN Unwrap(page.next) > 0 ELSE FALSE]))

READER_REL == Lit(<<"r", "e", "a", "d", "e", "r", "/">>)
READER_ABS == Lit(<<"/", "r", "e", "a", "d", "e", "r", "/">>)

\* A resolution that takes every link for a series.
deep_link_result_mutant(url) ==
  IF ~StartsWith(url, BASE_URL) THEN Returns(Ok(None))
  ELSE LET key == SliceFrom(url, Len(BASE_URL))
       IN  Joined({key}, Ok(Some([kind |-> "Manga", key |-> key.out])))

\* handle_deep_link
deep_link_result(url) ==
  IF ~StartsWith(url, BASE_URL) THEN Returns(Ok(None))
  ELSE LET key == SliceFrom(url, Len(BASE_URL))
       IN  Joined({key},
                  IF StartsWith(key.out, READER_REL) \/ Contains(key.out, READER_ABS)
                    THEN Ok(Some([kind |-> "Chapter", manga_key |-> <<>>, key |-> key.out]))
                    ELSE Ok(Some([kind |-> "Manga", key |-> key.out])))

----------------------------------------------------------------------------
(* Inputs of the pure functions *)

MaxLen == 3
MaxSegments == 3
MaxAmount == 40

\* All strings over alphabet of length at most n.
StringsUpTo(alphabet, n) == UNION {[1..k -> alphabet] : k \in 0..n}

PrintableAscii == 32..126

\* Characters that pass through the encoder, characters it escapes, and the
\* characters the decoder treats specially.
CodecAlphabet ==
  {Ord("a"), Ord("Z"), Ord("7"), Ord("-"), Ord("~"), Ord("%"), Ord("+"), Ord(" "), Ord("/")}

\* Strings that are not ASCII: "é", "aé" and "€".
NonAsciiInputs == {<<195, 169>>, <<Ord("a"), 195, 169>>, <<226, 130, 172>>}

CodecInputs ==
  StringsUpTo(CodecAlphabet, MaxLen) \cup {<<b>> : b \in PrintableAscii} \cup NonAsciiInputs

PathSegments ==
  { <<>>,
    Lit(<<"a">>),
    Lit(<<"!", "g">>),
    Lit(<<"%", "2", "1", "x">>),
    Lit(<<"b", "%", "2", "0", "c">>),
    Lit(<<"c", "+", "d">>),
    Lit(<<"%", "z">>) }

ExamplePath ==
  Lit(<<"/", "M", "a", "n", "g", "a", "/", "S", "/",
        "S", "e", "r", "i", "e", "s", "-", "N", "a", "m", "e", "/",
        "!", "G", "r", "o", "u", "p", "/",
        "C", "h", "a", "p", "t", "e", "r", "-", "1", "/">>)

\* Paths: every segment preceded by '/', with and without a trailing '/'.
PathInputs ==
  LET lists == UNION {[1..k -> PathSegments] : k \in 0..MaxSegments}
      joined(l) == Concat([i \in 1..Len(l) |-> <<CH_SLASH>> \o l[i]])
  IN  {joined(l) : l \in lists} \cup {joined(l) \o <<CH_SLASH>> : l \in lists}
        \cup {ExamplePath}

\* The digits of n < 0, without the sign.  The quotient is truncated and the
\* digit taken from the remainder, so that -n is never computed.
RECURSIVE NegativeDigits(_)
NegativeDigits(n) ==
  IF n > -10 THEN <<Ord("0") - n>>
  ELSE NegativeDigits((n \div 10) + (IF n % 10 = 0 THEN 0 ELSE 1))
         \o <<Ord("0") + ((10 - (n % 10)) % 10)>>

\* An integer as "{}" writes it: a '-' for a negative one, and the digits.
RECURSIVE ToDecimal(_)
ToDecimal(n) ==
  IF n < 0 THEN <<CH_MINUS>> \o NegativeDigits(n)
  ELSE IF n < 10 THEN <<Ord("0") + n>>
  ELSE ToDecimal(n \div 10) \o <<Ord("0") + (n % 10)>>

Pad2(n) == IF n < 10 THEN <<Ord("0")>> \o ToDecimal(n) ELSE ToDecimal(n)
Pad4(n) ==
  IF n < 10 THEN Lit(<<"0", "0", "0">>) \o ToDecimal(n)
  ELSE IF n < 100 THEN Lit(<<"0", "0">>) \o ToDecimal(n)
  ELSE IF n < 1000 THEN Lit(<<"0">>) \o ToDecimal(n)
  ELSE ToDecimal(n)

Units ==
  { Lit(<<"s", "e", "c">>), Lit(<<"s", "e", "c", "s">>),
    Lit(<<"s", "e", "c", "o", "n", "d", "s">>),
    Lit(<<"m", "i", "n">>), Lit(<<"m", "i", "n", "s">>),
    Lit(<<"m", "i", "n", "u", "t", "e", "s">>),
    Lit(<<"h", "o", "u", "r">>), Lit(<<"h", "o", "u", "r", "s">>),
    Lit(<<"d", "a", "y", "s">>), Lit(<<"w", "e", "e", "k">>),
    Lit(<<"m", "o", "n", "t", "h">>), Lit(<<"y", "e", "a", "r", "s">>),
    Lit(<<"m", "i">>), Lit(<<"h">>), Lit(<<"M", "i", "n">>),
    Lit(<<"h", "a", "l", "f", " ", "h", "o", "u", "r">>),
    Lit(<<" ", "m", "i", "n">>),
    <<>> }

Signs == {<<>>, <<CH_MINUS>>, <<CH_PLUS>>}

\* "<N> <unit> ago"
RelativeString(sign, n, unit) ==
  sign \o ToDecimal(n) \o <<CH_SPACE>> \o unit \o <<CH_SPACE>> \o AGO

\* Amounts in digits that are past i64, at its ends, or written with more
\* digits than an i64 has.
LongAmounts ==
  { Lit(<<"9", "9", "9", "9", "9", "9", "9", "9", "9", "9", "9", "9", "9", "9", "9", "9",
          "9", "9", "9", "9">>),
    I64_MIN_DIGITS,
    Lit(<<"0", "0", "0", "0", "0", "0", "0", "0", "0", "0", "0", "0", "0", "0", "0", "0",
          "0", "0", "0", "0", "0", "7">>) }

RelativeInputs ==
  {RelativeString(sg, n, u) : sg \in Signs, n \in 0..MaxAmount, u \in Units}
    \cup {sg \o a \o <<CH_SPACE>> \o u \o <<CH_SPACE>> \o AGO :
             sg \in {<<>>, <<CH_PLUS>>}, a \in LongAmounts, u \in {MIN, HOUR, SEC, <<>>}}
    \cup {<<CH_MINUS>> \o Lit(<<"0", "0", "7">>) \o <<CH_SPACE>> \o MIN \o <<CH_SPACE>> \o AGO}

\* "yyyy-MM-dd HH:mm"
AbsoluteString(y, m, d, h, mi) ==
  Pad4(y) \o <<CH_MINUS>> \o Pad2(m) \o <<CH_MINUS>> \o Pad2(d) \o <<CH_SPACE>>
    \o Pad2(h) \o <<Ord(":")>> \o Pad2(mi)

\* Strings of neither form, and strings close to one.
OtherDateInputs ==
  { <<>>,
    AGO,
    Lit(<<"5", " ", "a", "g", "o">>),
    Lit(<<"5", "m", "i", "n", " ", "a", "g", "o">>),
    Lit(<<"5", " ", "m", "i", "n", "a", "g", "o">>),
    Lit(<<"5", " ", "m", "i", "n", " ", "x", "a", "g", "o">>),
    Lit(<<"x", " ", "m", "i", "n", " ", "a", "g", "o">>),
    Lit(<<"a", " ", "f", "e", "w", " ", "h", "o", "u", "r", "s", " ", "a", "g", "o">>),
    Lit(<<"l", "o", "n", "g", " ", "a", "g", "o">>),
    Lit(<<"5", " ", "m", "i", "n">>),
    Lit(<<"y", "e", "s", "t", "e", "r", "d", "a", "y">>),
    Lit(<<"2", "0", "0", "1", "-", "0", "2", "-", "0", "3">>),
    Lit(<<"2", "0", "0", "1", "-", "0", "2", "-", "0", "3", " ", "0", "4", ":", "0">>),
    Lit(<<"a", "b", "c", "d", "-", "e", "f", "-", "g", "h", " ", "1", "2", ":", "3", "4">>),
    Lit(<<"x", "x", "x", "x", "x", "x", "x", "x", "x", "x", "x", "x", "x", "x", "x", "x">>),
    Lit(<<"2", "0", "0", "1", "/", "0", "2", "/", "0", "3", " ", "0", "4", "h", "0", "5">>),
    Lit(<<"F", "e", "b", " ", "3", ",", " ", "2", "0", "0", "1", " ", "0", "4", ":", "0", "5">>),
    Lit(<<"a", " ", "v", "e", "r", "y", " ", "l", "o", "n", "g", " ", "t", "i", "m", "e", " ", "a", "g", "o">>),
    AbsoluteString(2001, 2, 3, 4, 5) \o <<CH_SPACE>> \o AGO,
    AbsoluteString(1970, 1, 1, 0, 0),
    AbsoluteString(2001, 2, 3, 4, 5),
    AbsoluteString(2001, 2, 3, 4, 5) \o Lit(<<":", "0", "6">>),
    \* "201é-02-03 04:05", "2001-02-03 04:0é" and "2001-02-03 04:05é"
    Lit(<<"2", "0", "1">>) \o <<195, 169>>
      \o Lit(<<"-", "0", "2", "-", "0", "3", " ", "0", "4", ":", "0", "5">>),
    Lit(<<"2", "0", "0", "1", "-", "0", "2", "-", "0", "3", " ", "0", "4", ":", "0">>)
      \o <<195, 169>>,
    AbsoluteString(2001, 2, 3, 4, 5) \o <<195, 169>>,
    \* "ééééééé" (14 bytes) and "éééééééé" (16 bytes)
    <<195, 169, 195, 169, 195, 169, 195, 169, 195, 169, 195, 169, 195, 169>>,
    <<195, 169, 195, 169, 195, 169, 195, 169, 195, 169, 195, 169, 195, 169, 195, 169>> }

DateInputs == RelativeInputs \cup OtherDateInputs

----------------------------------------------------------------------------
(* The pure functions applied to their inputs *)

NoDoc == None
NoSettings == [username |-> None, password |-> None]

InitCodec ==
  /\ op = "input"
  /\ arg \in CodecInputs \cup PathInputs
  /\ ret = None
  /\ doc = NoDoc
  /\ settings = NoSettings
  /\ requests = <<>>

EncodeComponent ==
  /\ op = "input"
  /\ op' = "encode_component"
  /\ ret' = Returns(encode_component(arg))
  /\ UNCHANGED <<arg, doc, settings, requests>>

\* The decoder applied to what the encoder returned.
PercentDecode ==
  /\ op = "encode_component"
  /\ op' = "percent_decode"
  /\ ret' = Returns(percent_decode(ret.out))
  /\ UNCHANGED <<arg, doc, settings, requests>>

DeriveFromPath ==
  /\ op = "input"
  /\ op' = "derive_from_path"
  /\ ret' = Returns(derive_from_path(arg))
  /\ UNCHANGED <<arg, doc, settings, requests>>

NextCodec == EncodeComponent \/ PercentDecode \/ DeriveFromPath

SpecCodec == InitCodec /\ [][NextCodec]_vars

InitDate ==
  /\ op = "input"
  /\ arg \in DateInputs
  /\ ret = None
  /\ doc = NoDoc
  /\ settings = NoSettings
  /\ requests = <<>>

ParseChapterDate ==
  /\ op = "input"
  /\ op' = "parse_chapter_date"
  /\ ret' \in Builds(parse_chapter_date(arg))
  /\ UNCHANGED <<arg, doc, settings, requests>>

NextDate == ParseChapterDate

SpecDate == InitDate /\ [][NextDate]_vars

----------------------------------------------------------------------------
(* The adapter's entry points *)

MaxRows == 2
MaxChapterRows == 3
MaxFiles == 2

SeqsUpTo(set, n) == UNION {[1..k -> set] : k \in 0..n}

SettingsSet ==
  { [username |-> None, password |-> None],
    [username |-> Some(Lit(<<"u", "s", "e", "r">>)), password |-> Some(Lit(<<"p", "w">>))],
    [username |-> Some(<<>>), password |-> Some(Lit(<<"p">>))] }

Queries ==
  { None,
    Some(Lit(<<"o", "n", "e", " ", "p", "i", "e", "c", "e">>)),
    Some(Lit(<<"a", "&", "b", "%">>)) }

KEY_ABC == Lit(<<"/", "M", "a", "n", "g", "a", "/", "A", "/", "A", "b", "c">>)
KEY_GROUP == KEY_ABC \o Lit(<<"/", "!", "G", "r", "p">>)

KEY_E9 == Lit(<<"/", "M", "/", "%", "e", "9">>)

\* The hrefs of listing rows: site-relative paths, a path with no title to
\* derive, a relative one, one with an escaped byte past 0x7F and an empty one.
MangaHrefs ==
  { KEY_ABC, KEY_GROUP,
    Lit(<<"/", "!", "x">>),
    Lit(<<"M", "a", "n", "g", "a", "/", "B">>),
    KEY_E9,
    <<>> }

Anchors(hrefs) ==
  {None, Some([href |-> None])} \cup {Some([href |-> Some(h)]) : h \in hrefs}

ListingRows == {[link |-> a] : a \in Anchors(MangaHrefs)}

RowLists == {None} \cup {Some(l) : l \in SeqsUpTo(ListingRows, MaxRows)}

SearchPages == {[rows |-> r] : r \in RowLists}

RecentPages == {[rows |-> r, next |-> n] : r \in RowLists, n \in {None, Some(0), Some(1), Some(2)}}

ListingIds == {RECENT, Lit(<<"p", "o", "p", "u", "l", "a", "r">>), <<>>}

TITLE_KNOWN == Lit(<<"K", "n", "o", "w", "n">>)

MangaInputs ==
  { [DefaultManga EXCEPT !.key = KEY_ABC],
    [DefaultManga EXCEPT !.key = KEY_GROUP, !.title = TITLE_KNOWN,
                         !.description = Some(Lit(<<"d">>))],
    [DefaultManga EXCEPT !.key = Lit(<<"/", "!", "x">>)],
    [DefaultManga EXCEPT !.key = KEY_E9] }

HREF_5 == Lit(<<"/", "r", "e", "a", "d", "e", "r", "/", "5">>)
HREF_4 == Lit(<<"r", "e", "a", "d", "e", "r", "/", "4">>)
HREF_3 == Lit(<<"/", "r", "e", "a", "d", "e", "r", "/", "3">>)
HREF_9 == Lit(<<"/", "r", "e", "a", "d", "e", "r", "/", "9">>)

\* Index-table rows: three that give a chapter (one with a relative href, one
\* with neither title nor date), one without the 6th column's anchor, one
\* whose anchor has no href, and one whose date is "201é-02-03 04:05".
ChapterRows ==
  { [link |-> Some([href |-> Some(HREF_5)]),
     title |-> Some(Lit(<<"A", "b", "c", " ", "v", "1", " ", "5", ".", "5", "0">>)),
     date |-> Some(Lit(<<"2", " ", "h", "o", "u", "r", "s", " ", "a", "g", "o">>))],
    [link |-> Some([href |-> Some(HREF_4)]),
     title |-> Some(Lit(<<"C", "h", ".", "4", " ", "1", "e", "1">>)),
     date |-> Some(AbsoluteString(2001, 2, 3, 4, 5))],
    [link |-> Some([href |-> Some(HREF_3)]), title |-> None, date |-> None],
    [link |-> None,
     title |-> Some(Lit(<<"C", "h", " ", "2">>)),
     date |-> Some(Lit(<<"3", " ", "m", "i", "n", " ", "a", "g", "o">>))],
    [link |-> Some([href |-> None]),
     title |-> Some(Lit(<<"C", "h", " ", "-", "1">>)),
     date |-> Some(Lit(<<"s", "o", "o", "n">>))],
    [link |-> Some([href |-> Some(HREF_9)]),
     title |-> Some(Lit(<<"N", "a", "n", " ", "9">>)),
     date |-> Some(Lit(<<"2", "0", "1">>) \o <<195, 169>>
                     \o Lit(<<"-", "0", "2", "-", "0", "3", " ", "0", "4", ":", "0", "5">>))] }

ChapterRowLists == {None} \cup {Some(l) : l \in SeqsUpTo(ChapterRows, MaxChapterRows)}

\* A series page with none of the elements the adapter looks for.
BarePage ==
  [cover |-> None, title |-> None, authors |-> None, artists |-> None,
   synopsis |-> None, status |-> None, tags |-> None, index_rows |-> None]

DetailPages ==
  { BarePage,
    [BarePage EXCEPT
       !.cover = Some(Lit(<<"/", "c", ".", "j", "p", "g">>)),
       !.title = Some(Lit(<<"A", "b", "c", "!">>)),
       !.authors = Some(<<Some(Lit(<<"A", "n", "n">>)), None, Some(Lit(<<"B", "o">>))>>),
       !.artists = Some(<<>>),
       !.synopsis = Some(Lit(<<"s", "t", "o", "r", "y">>)),
       !.status = Some(Lit(<<"Y", "e", "s">>)),
       !.tags = Some(<<Some(Lit(<<"t", "a", "g">>))>>)],
    [BarePage EXCEPT
       !.title = Some(<<>>),
       !.status = Some(Lit(<<"N", "o">>))],
    [BarePage EXCEPT !.status = Some(Lit(<<"y", "e", "s">>))] }

MangaPages ==
  {[d EXCEPT !.index_rows = Some(<<>>)] : d \in DetailPages}
    \cup {[BarePage EXCEPT !.index_rows = r] : r \in ChapterRowLists}

FileNames ==
  { Lit(<<"0", "0", "1", ".", "j", "p", "g">>),
    Lit(<<"a", " ", "dquote", "b", "backslash", ".", "p", "n", "g">>),
    Lit(<<"p", "+", "1", "%", ".", "j", "p", "g">>) }

FileLists == SeqsUpTo(FileNames, MaxFiles)

\* A file name as the inside of a JSON string: with the two characters
\* escaped that must be, or with every character as a \u escape.
JsonEscaped(name, style) ==
  Concat([i \in 1..Len(name) |->
            IF style = "unicode"
              THEN <<BACKSLASH, Ord("u"), Ord("0"), Ord("0"),
                     UpperHexDigit(name[i] \div 16), UpperHexDigit(name[i] % 16)>>
            ELSE IF name[i] \in {DQUOTE, BACKSLASH} THEN <<BACKSLASH, name[i]>>
            ELSE <<name[i]>>])

\* The JSON text of a list of file names, compact or spaced out.
JsonText(files, gap, style) ==
  <<Ord("[")>> \o gap
    \o Concat([i \in 1..Len(files) |->
                 (IF i > 1 THEN <<Ord(",")>> \o gap ELSE <<>>)
                   \o <<DQUOTE>> \o JsonEscaped(files[i], style) \o <<DQUOTE>> \o gap])
    \o <<Ord("]")>>

Gaps == {<<>>, <<CH_SPACE>>, <<10, 9>>}
Styles == {"plain", "unicode"}

\* JSON arrays of strings with other escapes, each with the strings it
\* stands for: the two-byte escapes, a surrogate pair (U+1F600), a character
\* that is not ASCII, written as it is and as an escape.
EscapedJson ==
  { [text |-> Lit(<<"[", "dquote", "a", "backslash", "n", "backslash", "/",
                    "backslash", "t", "backslash", "b", "backslash", "f",
                    "backslash", "r", "dquote", "]">>),
     files |-> <<<<Ord("a"), 10, 47, 9, 8, 12, 13>>>>],
    [text |-> Lit(<<"[", "dquote", "backslash", "u", "d", "8", "3", "d",
                    "backslash", "u", "D", "E", "0", "0", "dquote", "]">>),
     files |-> <<<<240, 159, 152, 128>>>>],
    [text |-> <<Ord("["), DQUOTE, 195, 169, DQUOTE, Ord("]")>>,
     files |-> <<<<195, 169>>>>],
    [text |-> Lit(<<"[", "dquote", "backslash", "u", "0", "0", "e", "9", "dquote", "]">>),
     files |-> <<<<195, 169>>>>] }

\* The texts that are a JSON array of strings, each with its strings.
JsonCases ==
  {[text |-> JsonText(f, g, st), files |-> f] : f \in FileLists, g \in Gaps, st \in Styles}
    \cup EscapedJson

\* Texts that are no JSON array of strings.
BrokenJson ==
  { Lit(<<"[">>),
    Lit(<<"[", "dquote", "a", "dquote">>),
    Lit(<<"[", "dquote", "a", "dquote", ",", "]">>),
    Lit(<<"[", "dquote", "a", "]">>),
    Lit(<<"[", "1", ",", "2", "]">>),
    Lit(<<"{", "}">>),
    Lit(<<"n", "u", "l", "l">>),
    Lit(<<"[", "]", "x">>),
    Lit(<<"dquote", "a", "dquote">>),
    <<Ord("["), DQUOTE, Ord("a"), 9, Ord("b"), DQUOTE, Ord("]")>>,
    Lit(<<"[", "dquote", "backslash", "x", "dquote", "]">>),
    Lit(<<"[", "dquote", "backslash", "u", "0", "0", "g", "1", "dquote", "]">>),
    Lit(<<"[", "dquote", "backslash", "u", "d", "8", "3", "d", "dquote", "]">>),
    Lit(<<"[", "dquote", "backslash", "u", "d", "e", "0", "0", "dquote", "]">>),
    Lit(<<"[", "dquote", "a", "backslash", "dquote", "]">>) }

DataPaths == {None, Some(<<>>), Some(KEY_ABC \o Lit(<<"/", "C", "h", " ", "1", "&", "2">>))}

DataFiles ==
  {None, Some(<<>>)}
    \cup {Some(c.text) : c \in JsonCases}
    \cup {Some(t) : t \in BrokenJson}

ReaderPages ==
  {[reader |-> None]}
    \cup {[reader |-> Some([data_path |-> dp, data_files |-> df])] :
            dp \in DataPaths, df \in DataFiles}

ChapterKeys == {HREF_5, HREF_3}

DeepLinkPaths ==
  { <<>>, <<CH_SLASH>>, KEY_ABC, KEY_GROUP,
    HREF_5 \o Lit(<<"/", "C", "h", "%", "2", "0", "1">>),
    HREF_4,
    KEY_ABC \o HREF_5,
    Lit(<<"/", "r", "e", "a", "d", "e", "r">>),
    Lit(<<"/", "r", "e", "a", "d", "e", "r", "s", "/", "1">>),
    Lit(<<"/", "x", "r", "e", "a", "d", "e", "r", "/", "1">>),
    Lit(<<"x", "/", "r", "e", "a", "d", "e", "r", "/", "1">>),
    Lit(<<".", "e", "v", "i", "l", ".", "c", "o", "m", "/", "a">>),
    <<CH_SLASH, 195, 169>> }

DeepLinkUrls ==
  {BASE_URL \o path : path \in DeepLinkPaths}
    \cup { <<>>,
           SubSeq(BASE_URL, 1, Len(BASE_URL) - 1),
           Lit(<<"h", "t", "t", "p", ":", "/", "/", "m", "a", "n", "g", "a", ".",
                 "m", "a", "d", "o", "k", "a", "m", "i", ".", "a", "l", "/", "a">>),
           Lit(<<"h", "t", "t", "p", "s", ":", "/", "/", "e", "x", ".", "a", "l">>) \o HREF_5,
           KEY_ABC }

\* What a fetch gives: None when the request or the parse of its body fails,
\* Some(page) otherwise.
Fetched(pages) == {None} \cup {Some(pg) : pg \in pages}

\* Request::get(url) accepts the URL or not; a request that was not built
\* fetches nothing.
Accepted(fetched) == IF IsSome(fetched) THEN {TRUE} ELSE BOOLEAN

FETCH_FAILED == Returns(Err("request failed"))

\* The adapter holds no state of its own: between two calls of the host (the
\* calls are synchronous, one at a time) op is "idle", and the other
\* variables hold what the last call was given, fetched and returned.
Init ==
  /\ op = "idle"
  /\ arg = None
  /\ doc = NoDoc
  /\ ret = None
  /\ settings \in SettingsSet
  /\ requests = <<>>

GetSearchMangaList ==
  /\ op = "idle"
  /\ \E query \in Queries, page_no \in {1}, fetched \in Fetched(SearchPages) :
     \E accepted \in Accepted(fetched) :
       /\ op' = "get_search_manga_list"
       /\ arg' = [query |-> query, page |-> page_no]
       /\ requests' =
            requests_built(
              auth_get(BASE_URL \o Lit(<<"/", "s", "e", "a", "r", "c", "h", "?", "q", "=">>)
                         \o encode_uri(UnwrapOr(query, <<>>)), settings, accepted))
       /\ doc' = fetched
       /\ ret' \in Builds(IF IsSome(fetched) THEN search_result(Unwrap(fetched))
                         ELSE FETCH_FAILED)
  /\ UNCHANGED settings

\* get_manga_update for a series, with the two flags, on what the fetch gave.
UpdateManga(manga, needs_details, needs_chapters, accepted, fetched) ==
  /\ op' = "get_manga_update"
  /\ arg' = [manga |-> manga, needs_details |-> needs_details,
             needs_chapters |-> needs_chapters]
  /\ requests' = requests_built(auth_get(BASE_URL \o manga.key, settings, accepted))
  /\ doc' = fetched
  /\ ret' \in Builds(IF IsSome(fetched)
                      THEN manga_update_result(manga, needs_details, needs_chapters,
                                               Unwrap(fetched))
                      ELSE FETCH_FAILED)
  /\ UNCHANGED settings

GetMangaUpdate ==
  /\ op = "idle"
  /\ \E manga \in MangaInputs, needs_details \in BOOLEAN, needs_chapters \in BOOLEAN,
        fetched \in Fetched(MangaPages) :
     \E accepted \in Accepted(fetched) :
       UpdateManga(manga, needs_details, needs_chapters, accepted, fetched)

GetPageList ==
  /\ op = "idle"
  /\ \E chapter_key \in ChapterKeys, fetched \in Fetched(ReaderPages) :
     \E accepted \in Accepted(fetched) :
       /\ op' = "get_page_list"
       /\ arg' = [chapter |-> [key |-> chapter_key]]
       /\ requests' = requests_built(auth_get(BASE_URL \o chapter_key, settings, accepted))
       /\ doc' = fetched
       /\ ret' \in Builds(IF IsSome(fetched) THEN page_list_result(Unwrap(fetched))
                         ELSE FETCH_FAILED)
  /\ UNCHANGED settings

GetMangaList ==
  /\ op = "idle"
  /\ \E listing_id \in ListingIds, page_no \in {-1, 1, 2}, fetched \in Fetched(RecentPages) :
     \E accepted \in Accepted(fetched) :
       /\ op' = "get_manga_list"
       /\ arg' = [listing |-> [id |-> listing_id], page |-> page_no]
       /\ IF listing_id = RECENT
            THEN /\ requests' =
                      requests_built(
                        auth_get(BASE_URL
                                   \o Lit(<<"/", "r", "e", "c", "e", "n", "t", "?",
                                            "p", "a", "g", "e", "=">>)
                                   \o ToDecimal(page_no), settings, accepted))
                 /\ doc' = fetched
                 /\ ret' \in Builds(IF IsSome(fetched) THEN recent_result(Unwrap(fetched))
                                   ELSE FETCH_FAILED)
            ELSE /\ requests' = <<>>
                 /\ doc' = NoDoc
                 /\ ret' = Returns(Err("Unimplemented listing"))
  /\ UNCHANGED settings

GetHome ==
  /\ op = "idle"
  /\ op' = "get_home"
  /\ arg' = None
  /\ requests' = <<>>
  /\ doc' = NoDoc
  /\ ret' = Returns(Ok([components |-> <<>>]))
  /\ UNCHANGED settings

HandleDeepLink ==
  /\ op = "idle"
  /\ \E url \in DeepLinkUrls :
       /\ op' = "handle_deep_link"
       /\ arg' = [url |-> url]
       /\ requests' = <<>>
       /\ doc' = NoDoc
       /\ ret' \in Builds(deep_link_result(url))
  /\ UNCHANGED settings

\* The call has returned and the host has taken its result.
Return ==
  /\ op # "idle"
  /\ op' = "idle"
  /\ arg' = None
  /\ doc' = NoDoc
  /\ ret' = None
  /\ requests' = <<>>
  /\ UNCHANGED settings

Next ==
  \/ GetSearchMangaList
  \/ GetMangaUpdate
  \/ GetPageList
  \/ GetMangaList
  \/ GetHome
  \/ HandleDeepLink
  \/ Return

Spec == Init /\ [][Next]_vars

----------------------------------------------------------------------------
(* Series pages whose two chapter rows carry absolute dates that differ in one
   component *)

Years == {1969, 1970, 1972, 1999, 2000, 2001}

IsLeap(y) == y % 4 = 0 /\ (y % 100 # 0 \/ y % 400 = 0)

DaysIn(y, m) ==
  IF m = 2 THEN (IF IsLeap(y) THEN 29 ELSE 28)
  ELSE IF m \in {4, 6, 9, 11} THEN 30
  ELSE 31

\* A date and time as <<year, month, day, hour, minute>>.
ValidFields(f) ==
  /\ f[2] \in 1..12
  /\ f[3] \in 1..DaysIn(f[1], f[2])
  /\ f[4] \in 0..23
  /\ f[5] \in 0..59

\* Dates at which the hour and the minute are varied.
SampleDates == {<<1969, 12, 31>>, <<1970, 1, 1>>, <<2000, 2, 29>>}

\* Pairs <<earlier, later>> of valid dates that differ in one component: every
\* pair of years and of months over all days; within a month the
\* neighbouring days and the first and last; every pair of hours and the
\* neighbouring minutes (and the first and last) at the sample dates.
DatePairs ==
  LET yearPairs ==
        {<<<<y1, m, d, 23, 59>>, <<y2, m, d, 23, 59>>>> :
           y1 \in Years, y2 \in Years, m \in 1..12, d \in 1..31}
      monthPairs ==
        {<<<<y, m1, d, 23, 59>>, <<y, m2, d, 23, 59>>>> :
           y \in Years, m1 \in 1..12, m2 \in 1..12, d \in 1..31}
      dayPairs ==
        {<<<<y, m, d, 23, 59>>, <<y, m, d + 1, 23, 59>>>> :
           y \in Years, m \in 1..12, d \in 1..30}
          \cup {<<<<y, m, 1, 23, 59>>, <<y, m, DaysIn(y, m), 23, 59>>>> :
                  y \in Years, m \in 1..12}
      hourPairs ==
        {<<<<dt[1], dt[2], dt[3], h1, mi>>, <<dt[1], dt[2], dt[3], h2, mi>>>> :
           dt \in SampleDates, h1 \in 0..23, h2 \in 0..23, mi \in {0, 59}}
      minutePairs ==
        {<<<<dt[1], dt[2], dt[3], h, mi>>, <<dt[1], dt[2], dt[3], h, mi + 1>>>> :
           dt \in SampleDates, h \in {0, 23}, mi \in 0..58}
          \cup {<<<<dt[1], dt[2], dt[3], h, 0>>, <<dt[1], dt[2], dt[3], h, 59>>>> :
                  dt \in SampleDates, h \in {0, 23}}
  IN  {pr \in yearPairs \cup monthPairs \cup dayPairs \cup hourPairs \cup minutePairs :
         /\ ValidFields(pr[1]) /\ ValidFields(pr[2])
         /\ \E c \in 1..5 : pr[1][c] < pr[2][c]}

\* What may follow the 16 bytes of an absolute date: nothing, seconds, and
\* text that ends in "ago".
Suffixes == {<<>>, Lit(<<":", "0", "7">>), Lit(<<" ", "a", "g", "o">>)}

DateRow(href, f, suffix) ==
  [link |-> Some([href |-> Some(href)]),
   title |-> None,
   date |-> Some(AbsoluteString(f[1], f[2], f[3], f[4], f[5]) \o suffix)]

\* The page lists the later chapter first.
DatePairPage(pr, suffix) ==
  [BarePage EXCEPT
     !.index_rows = Some(<<DateRow(HREF_5, pr[2], suffix), DateRow(HREF_3, pr[1], suffix)>>)]

InitDateOrder ==
  /\ op = "idle"
  /\ arg = None
  /\ doc = NoDoc
  /\ ret = None
  /\ settings = NoSettings
  /\ requests = <<>>

\* get_manga_update, chapters alone, on a page of two dated rows.
GetMangaUpdateDated ==
  /\ op = "idle"
  /\ \E pr \in DatePairs, sfx \in Suffixes :
       UpdateManga([DefaultManga EXCEPT !.key = KEY_ABC], FALSE, TRUE, TRUE,
                   Some(DatePairPage(pr, sfx)))

NextDateOrder == GetMangaUpdateDated \/ Return

SpecDateOrder == InitDateOrder /\ [][NextDateOrder]_vars

----------------------------------------------------------------------------
(* Properties of the pure functions *)

IsPrintableAscii(s) == \A k \in 1..Len(s) : s[k] \in PrintableAscii

\* C1: for a string of printable ASCII characters, decoding what
\* encode_component returned for it gives the string back.
C1_DecodeInvertsEncode ==
  (op = "percent_decode" /\ IsPrintableAscii(arg)) => ret = Returns(arg)

\* A round trip of a string that holds a '%' and ends in a character that is
\* escaped, so that its encoding ends in a triplet.
C1_Witness ==
  /\ op = "percent_decode"
  /\ Len(arg) >= 2
  /\ arg[Len(arg)] = CH_SPACE
  /\ \E k \in 1..Len(arg) : arg[k] = CH_PERCENT
  /\ \E k \in 1..Len(arg) : arg[k] = CH_PLUS
  /\ ret = Returns(arg)

\* The seconds the claim gives a unit.
UnitSeconds(unit) ==
  IF StartsWith(unit, SEC) THEN 1
  ELSE IF StartsWith(unit, MIN) THEN 60
  ELSE IF StartsWith(unit, HOUR) THEN 3600
  ELSE 0

SPACE_AGO == <<CH_SPACE>> \o AGO

\* A decimal integer: an optional sign and one or more digits.
IsDecimalInteger(t) ==
  \/ (t # <<>> /\ \A k \in 1..Len(t) : IsDigit(t[k]))
  \/ (Len(t) >= 2 /\ t[1] \in {CH_PLUS, CH_MINUS} /\ \A k \in 2..Len(t) : IsDigit(t[k]))

\* "<N> <unit> ago": a decimal integer, a space, any unit, " ago".
IsRelativeForm(s) ==
  /\ EndsWith(s, SPACE_AGO)
  /\ \E k \in 1..(Len(s) - Len(SPACE_AGO)) :
       s[k] = CH_SPACE /\ IsDecimalInteger(SubSeq(s, 1, k - 1))

\* The text before the first space (all of s when it has none).
HasSpace(s) == \E k \in 1..Len(s) : s[k] = CH_SPACE
FirstToken(s) ==
  IF HasSpace(s)
    THEN SubSeq(s, 1, (CHOOSE k \in 1..Len(s) :
                         s[k] = CH_SPACE /\ \A h \in 1..(k - 1) : s[h] # CH_SPACE) - 1)
    ELSE s

\* Integers of any size, as a sign and digits without leading zeros; zero
\* has no sign.
Signed(neg, ds) ==
  LET d == StripZeros(ds) IN [neg |-> neg /\ d # <<Ord("0")>>, digits |-> d]
SignedOf(n) == Signed(n < 0, IF n < 0 THEN NegativeDigits(n) ELSE ToDecimal(n))
InI64(x) == DigitsLeq(x.digits, IF x.neg THEN I64_MIN_DIGITS ELSE I64_MAX_DIGITS)

\* The digits of k times the number of digits ds, plus carry.
RECURSIVE TimesDigits(_, _, _)
TimesDigits(ds, k, carry) ==
  IF ds = <<>> THEN (IF carry = 0 THEN <<>> ELSE ToDecimal(carry))
  ELSE LET v == (ds[Len(ds)] - Ord("0")) * k + carry
       IN  TimesDigits(SubSeq(ds, 1, Len(ds) - 1), k, v \div 10) \o <<Ord("0") + (v % 10)>>

\* For s of the relative form: N, N times the seconds of the unit, and the
\* offset -N times the seconds of the unit.
AmountDigits(s) ==
  IF FirstToken(s)[1] \in {CH_PLUS, CH_MINUS} THEN Tail(FirstToken(s)) ELSE FirstToken(s)
AmountNegative(s) == FirstToken(s)[1] = CH_MINUS
UnitOf(s) == SubSeq(s, Len(FirstToken(s)) + 2, Len(s) - Len(SPACE_AGO))
Amount(s) == Signed(AmountNegative(s), AmountDigits(s))
Product(s) == Signed(AmountNegative(s), TimesDigits(AmountDigits(s), UnitSeconds(UnitOf(s)), 0))
Offset(s) == Signed(~AmountNegative(s), TimesDigits(AmountDigits(s), UnitSeconds(UnitOf(s)), 0))

\* C2 as claimed: for "<N> <unit> ago" with any decimal integer N,
\* parse_chapter_date returns -N for a unit that begins with "sec", -N*60 for
\* "min", -N*3600 for "hour", 0 for any other.
C2_Original ==
  (op = "parse_chapter_date" /\ IsRelativeForm(arg))
  => (ret.panic = "never" /\ SignedOf(ret.out) = Offset(arg))

\* C2 as amended: the same for an N that is an i64, when N times the seconds
\* of the unit and the offset are i64 as well; for an N that is no i64 the
\* result is 0.
C2_RelativeOffsets ==
  (op = "parse_chapter_date" /\ IsRelativeForm(arg))
  => /\ (InI64(Amount(arg)) /\ InI64(Product(arg)) /\ InI64(Offset(arg)))
          => (ret.panic = "never" /\ SignedOf(ret.out) = Offset(arg))
     /\ ~InI64(Amount(arg)) => ret = Returns(0)

C2_Witness ==
  /\ op = "parse_chapter_date"
  /\ arg = RelativeString(<<>>, 2, Lit(<<"h", "o", "u", "r", "s">>))
  /\ ret = Returns(-7200)

\* "yyyy-MM-dd HH:mm", possibly followed by more.
IsAbsoluteForm(s) ==
  /\ Len(s) >= 16
  /\ \A k \in {1, 2, 3, 4, 6, 7, 9, 10, 12, 13, 15, 16} : IsDigit(s[k])
  /\ s[5] = CH_MINUS /\ s[8] = CH_MINUS /\ s[11] = CH_SPACE /\ s[14] = Ord(":")

\* C4: parse_chapter_date returns 0 for every string of neither form, strings
\* of 16 or more bytes included.
C4_ZeroForOtherStrings ==
  (op = "parse_chapter_date" /\ ~IsRelativeForm(arg) /\ ~IsAbsoluteForm(arg))
  => ret = Returns(0)

\* The segments of a path: the maximal runs of bytes other than '/', as
\* <<first, last>> positions.
SegmentSpans(path) ==
  {sp \in (1..Len(path)) \X (1..Len(path)) :
     /\ sp[1] <= sp[2]
     /\ \A k \in sp[1]..sp[2] : path[k] # CH_SLASH
     /\ (sp[1] = 1 \/ path[sp[1] - 1] = CH_SLASH)
     /\ (sp[2] = Len(path) \/ path[sp[2] + 1] = CH_SLASH)}

Latest(spans) == CHOOSE sp \in spans : \A o \in spans : o[1] <= sp[1]

\* C5: the description is the decoded last non-empty segment, whether or not
\* it begins with '!'; the title is the decoded segment nearest the end whose
\* decoding does not begin with '!' (empty when every segment does); a path
\* with no non-empty segment gives an empty title and no description.
C5_DeriveFromPath ==
  op = "derive_from_path" =>
    LET spans == SegmentSpans(arg)
        text(sp) == percent_decode(SubSeq(arg, sp[1], sp[2]))
        plain == {sp \in spans : text(sp)[1] # CH_BANG}
    IN  IF spans = {}
          THEN ret = Returns([title |-> <<>>, description |-> None])
          ELSE /\ ret.panic = "never"
               /\ ret.out.description = Some(text(Latest(spans)))
               /\ ret.out.title = (IF plain = {} THEN <<>> ELSE text(Latest(plain)))

\* A path whose last segment begins with '!': the description keeps it, the
\* title is taken from an earlier segment.
C5_Witness ==
  /\ op = "derive_from_path"
  /\ IsSome(ret.out.description)
  /\ StartsWith(Unwrap(ret.out.description), <<CH_BANG>>)
  /\ ret.out.title # <<>>
  /\ ret.out.title # Unwrap(ret.out.description)

----------------------------------------------------------------------------
(* Properties of the entry points *)

\* The call returned Ok.
ReturnedOk(r) == r.panic = "never" /\ r.out.ok

\* The five components of a string of the absolute form.
Fields(s) ==
  <<DigitsValue(SubSeq(s, 1, 4)), DigitsValue(SubSeq(s, 6, 7)),
    DigitsValue(SubSeq(s, 9, 10)), DigitsValue(SubSeq(s, 12, 13)),
    DigitsValue(SubSeq(s, 15, 16))>>

\* get_manga_update has returned the chapters of a page of two rows, each
\* with a date column.
TwoDatedRows ==
  /\ op = "get_manga_update" /\ ReturnedOk(ret) /\ arg.needs_chapters
  /\ IsSome(Unwrap(doc).index_rows)
  /\ Len(Unwrap(Unwrap(doc).index_rows)) = 2
  /\ IsSome(ret.out.val.chapters)
  /\ Len(Unwrap(ret.out.val.chapters)) = 2
  /\ \A i \in 1..2 : IsSome(Unwrap(Unwrap(doc).index_rows)[i].date)

\* The date text of the i-th row, and the value it was given (the chapters
\* are returned in reverse).
DateText(i) == Unwrap(Unwrap(Unwrap(doc).index_rows)[i].date)
DateValue(i) == Unwrap(Unwrap(ret.out.val.chapters)[3 - i].date_uploaded)

\* The two texts are of the form "yyyy-MM-dd HH:mm" with valid fields, differ
\* in one of the five components and in nothing else.
OneComponentApart ==
  /\ IsAbsoluteForm(DateText(1)) /\ IsAbsoluteForm(DateText(2))
  /\ ValidFields(Fields(DateText(1))) /\ ValidFields(Fields(DateText(2)))
  /\ Cardinality({c \in 1..5 : Fields(DateText(1))[c] # Fields(DateText(2))[c]}) = 1
  /\ SubSeq(DateText(1), 17, Len(DateText(1))) = SubSeq(DateText(2), 17, Len(DateText(2)))

\* The text with the larger component has the strictly larger value.
LargerIsLater ==
  \A c \in 1..5 :
     /\ Fields(DateText(1))[c] > Fields(DateText(2))[c] => DateValue(1) > DateValue(2)
     /\ Fields(DateText(1))[c] < Fields(DateText(2))[c] => DateValue(1) < DateValue(2)

\* C3 as claimed: of two strings "yyyy-MM-dd HH:mm" of 16 or more characters
\* with valid fields that differ in one of the five components alone, the one
\* with the larger component is given the strictly larger value.  The strings
\* are the date columns of two rows of a series page.
C3_Original ==
  (TwoDatedRows /\ OneComponentApart) => LargerIsLater

\* C3 as amended: the same for strings that do not end in "ago"; two such
\* strings that end in "ago" are both given 0.
C3_DatesMonotonic ==
  (TwoDatedRows /\ OneComponentApart)
  => IF EndsWith(DateText(1), AGO)
       THEN DateValue(1) = 0 /\ DateValue(2) = 0
       ELSE LargerIsLater

\* A step of one month across the end of February of a leap year.
C3_Witness ==
  /\ op = "get_manga_update" /\ ReturnedOk(ret)
  /\ Unwrap(doc).index_rows =
       Some(<<DateRow(HREF_5, <<2000, 3, 29, 23, 59>>, <<>>),
              DateRow(HREF_3, <<2000, 2, 29, 23, 59>>, <<>>)>>)
  /\ Unwrap(Unwrap(ret.out.val.chapters)[1].date_uploaded)
       < Unwrap(Unwrap(ret.out.val.chapters)[2].date_uploaded)

HasHref(row) == IsSome(row.link) /\ IsSome(Unwrap(row.link).href)

\* The date column of the row holds ASCII text, or none.
HasAsciiDate(row) == \A k \in 1..Len(UnwrapOr(row.date, <<>>)) : Unwrap(row.date)[k] < 128

\* C6: with needs_chapters, the chapters returned are the rows of the index
\* table that have a 6th-column anchor with an href, in reverse order, and
\* every chapter key begins with '/'.  The other rows are dropped, whatever
\* they hold, and the call does not fail: it returns when the date columns
\* of the rows kept hold ASCII text.
C6_ChaptersReversed ==
  (/\ op = "get_manga_update" /\ arg.needs_chapters
   /\ IsSome(doc) /\ IsSome(Unwrap(doc).index_rows))
  => LET rows == Unwrap(Unwrap(doc).index_rows)
         kept == {i \in 1..Len(rows) : HasHref(rows[i])}
         \* the row of the p-th chapter: p - 1 kept rows come after it
         rowOf(p) == CHOOSE i \in kept : Cardinality({j \in kept : j > i}) = p - 1
     IN  /\ (\A i \in kept : HasAsciiDate(rows[i])) => ret.panic = "never"
         /\ ret.panic = "never"
              => /\ ret.out.ok
                 /\ IsSome(ret.out.val.chapters)
                 /\ Len(Unwrap(ret.out.val.chapters)) = Cardinality(kept)
                 /\ \A p \in 1..Cardinality(kept) :
                      LET chapter == Unwrap(ret.out.val.chapters)[p]
                          href == Unwrap(Unwrap(rows[rowOf(p)].link).href)
                      IN  /\ chapter.key[1] = CH_SLASH
                          /\ chapter.key \in {href, <<CH_SLASH>> \o href}
                          /\ chapter.title = rows[rowOf(p)].title

\* Three rows scraped in the order 5, 4, 3 and returned in the order 3, 4, 5;
\* the href of row 4 had no leading '/'.
C6_Witness ==
  /\ op = "get_manga_update" /\ arg.needs_chapters /\ ReturnedOk(ret)
  /\ IsSome(Unwrap(doc).index_rows)
  /\ Len(Unwrap(Unwrap(doc).index_rows)) = 3
  /\ \A i \in 1..3 : Unwrap(Unwrap(doc).index_rows)[i].link
                       = Some([href |-> Some(<<HREF_5, HREF_4, HREF_3>>[i])])
  /\ Unwrap(ret.out.val.chapters)[1].key = HREF_3
  /\ Unwrap(ret.out.val.chapters)[2].key = <<CH_SLASH>> \o HREF_4
  /\ Unwrap(ret.out.val.chapters)[3].key = HREF_5

\* C7: every Series key returned by a search, by the "recent" listing and by
\* a deep link resolved to a series begins with '/'.
C7_SeriesKeysRooted ==
  /\ (op \in {"get_search_manga_list", "get_manga_list"} /\ ReturnedOk(ret))
       => \A i \in 1..Len(ret.out.val.entries) :
            StartsWith(ret.out.val.entries[i].key, <<CH_SLASH>>)
  /\ (/\ op = "handle_deep_link" /\ ReturnedOk(ret)
      /\ IsSome(ret.out.val) /\ Unwrap(ret.out.val).kind = "Manga")
       => StartsWith(Unwrap(ret.out.val).key, <<CH_SLASH>>)

\* C8: get_page_list does not fail on any page fetched: without a reader
\* element, with data-path or data-files absent or empty, or with data-files
\* no JSON array of strings, it returns no page; otherwise one page per file
\* name, in order, with the URL built from the two encoded components.
C8_PageList ==
  (op = "get_page_list" /\ IsSome(doc))
  => /\ ReturnedOk(ret)
     /\ LET el == Unwrap(doc).reader
        IN  IF \/ el = None
               \/ Unwrap(el).data_path \in {None, Some(<<>>)}
               \/ Unwrap(el).data_files \in {None, Some(<<>>)}
               \/ ~\E c \in JsonCases : c.text = Unwrap(Unwrap(el).data_files)
              THEN ret.out.val = <<>>
              ELSE \E c \in JsonCases :
                     /\ c.text = Unwrap(Unwrap(el).data_files)
                     /\ Len(ret.out.val) = Len(c.files)
                     /\ \A i \in 1..Len(c.files) :
                          ret.out.val[i].content.url =
                            BASE_URL
                              \o Lit(<<"/", "r", "e", "a", "d", "e", "r", "/", "i", "m", "a", "g", "e",
                                       "?", "p", "a", "t", "h", "=">>)
                              \o encode_component(Unwrap(Unwrap(el).data_path))
                              \o Lit(<<"&", "f", "i", "l", "e", "=">>)
                              \o encode_component(c.files[i])

\* Two pages for two different file names.
C8_Witness ==
  /\ op = "get_page_list" /\ ReturnedOk(ret)
  /\ Len(ret.out.val) = 2
  /\ ret.out.val[1] # ret.out.val[2]

\* C9: get_manga_list fails with "Unimplemented listing", without a request,
\* for every id but "recent"; for "recent", once the page is fetched,
\* has_next_page is true exactly when the page holds an a.pagination-next.
C9_ListingDispatch ==
  op = "get_manga_list"
  => /\ arg.listing.id # RECENT
          => (ret = Returns(Err("Unimplemented listing")) /\ requests = <<>>)
     /\ (arg.listing.id = RECENT /\ IsSome(doc))
          => /\ ReturnedOk(ret)
             /\ ret.out.val.has_next_page
                  <=> (IsSome(Unwrap(doc).next) /\ Unwrap(Unwrap(doc).next) >= 1)

C9_Witness ==
  /\ op = "get_manga_list" /\ ReturnedOk(ret)
  /\ ret.out.val.has_next_page
  /\ Len(ret.out.val.entries) > 0

\* A path holds a reader segment: "reader" between the start or a '/' and a '/'.
HasReaderSegment(path) ==
  \E a \in 1..Len(path) :
     /\ a + 6 <= Len(path)
     /\ SubSeq(path, a, a + 5) = Lit(<<"r", "e", "a", "d", "e", "r">>)
     /\ path[a + 6] = CH_SLASH
     /\ (a = 1 \/ path[a - 1] = CH_SLASH)

\* C10: handle_deep_link returns no error; no match for a URL that does not
\* start with the origin; otherwise the URL less the origin as key, of a
\* chapter when the key holds a reader segment and of a series when not.
C10_DeepLink ==
  op = "handle_deep_link"
  => /\ ReturnedOk(ret)
     /\ IF ~StartsWith(arg.url, BASE_URL)
          THEN ret.out.val = None
          ELSE /\ IsSome(ret.out.val)
               /\ BASE_URL \o Unwrap(ret.out.val).key = arg.url
               /\ Unwrap(ret.out.val).kind =
                    (IF HasReaderSegment(Unwrap(ret.out.val).key) THEN "Chapter" ELSE "Manga")

C10_Witness ==
  /\ op = "handle_deep_link" /\ ReturnedOk(ret)
  /\ IsSome(ret.out.val)
  /\ Unwrap(ret.out.val).kind = "Chapter"
  /\ Len(Unwrap(ret.out.val).key) > Len(HREF_5)

====
